---- MODULE Spec2Model ----
(***************************************************************************)
(* Restart-request bot (src/bot.py, with the older src/main.py filter).    *)
(*                                                                         *)
(* A text is a sequence of one-character strings, so that the regular      *)
(* expressions of the source can be evaluated character by character.      *)
(* A Slack message or event is a function whose DOMAIN is the set of keys  *)
(* the dict holds ("text", "user", ...).                                   *)
(***************************************************************************)
EXTENDS Integers, Sequences, FiniteSets, TLC

VARIABLES
    alert_sent,         \* SlackClient.alert_sent
    window,             \* the messages conversations_history holds for the current day
    scheduler_running,  \* the while-loop of start_scheduler is still alive
    last,               \* record of the operation that ran last (history)
    since_reset,        \* successful alert posts since alert_sent was last cleared (history)
    retry_pending,      \* an alert post failed and none has succeeded since (history)
    pc,                 \* position of each handler thread (SpecConc)
    hlocal,             \* locals of each handler thread (SpecConc)
    lost_reset,         \* a write of send_alert has overwritten a later reset (history, SpecConc)
    batch,              \* input messages of the pure pipeline (SpecPure)
    requests,           \* result of RestartAnalyzer.extract_restart_requests (SpecPure)
    main_requests,      \* result of main.extract_restart_requests (SpecPure)
    services,           \* service_dict built by extract_services (SpecPure)
    total,              \* restart_num of count_restarts (SpecPure)
    report,             \* mapping returned by extract_services (SpecPure)
    stage               \* how far the pure pipeline has run (SpecPure)

vars == <<alert_sent, window, scheduler_running, last, since_reset, retry_pending,
          pc, hlocal, lost_reset, batch, requests, main_requests, services, total, report,
          stage>>

machine_vars == <<alert_sent, window, scheduler_running, last, since_reset, retry_pending>>
thread_vars == <<pc, hlocal, lost_reset>>
pure_vars == <<batch, requests, main_requests, services, total, report, stage>>

---------------------------------------------------------------------------------------------------------------------------------------------------
(* Characters.  A character of Latin-1 is the string that holds it.  The   *)
(* characters beyond Latin-1 that str.lower or re.IGNORECASE relate to a   *)
(* letter of the keywords are named by their code point; every other       *)
(* character beyond Latin-1 is outside the alphabet of the texts.          *)

LongS == "U+017F"
KelvinSign == "U+212A"
CapitalIWithDot == "U+0130"
DotlessI == "U+0131"
CombiningDot == "U+0307"

UpperLetters == <<"A","B","C","D","E","F","G","H","I","J","K","L","M",
                  "N","O","P","Q","R","S","T","U","V","W","X","Y","Z">>
LowerLetters == <<"a","b","c","d","e","f","g","h","i","j","k","l","m",
                  "n","o","p","q","r","s","t","u","v","w","x","y","z">>
\* the letters of Latin-1 that have another case, U+00C0..U+00DE and U+00E0..U+00FE
Latin1Upper == <<"À", "Á", "Â", "Ã", "Ä", "Å", "Æ", "Ç", "È", "É", "Ê", "Ë", "Ì", "Í", "Î",
                 "Ï", "Ð", "Ñ", "Ò", "Ó", "Ô", "Õ", "Ö", "Ø", "Ù", "Ú", "Û", "Ü", "Ý", "Þ">>
Latin1Lower == <<"à", "á", "â", "ã", "ä", "å", "æ", "ç", "è", "é", "ê", "ë", "ì", "í", "î",
                 "ï", "ð", "ñ", "ò", "ó", "ô", "õ", "ö", "ø", "ù", "ú", "û", "ü", "ý", "þ">>
Digits == {"0","1","2","3","4","5","6","7","8","9"}
UpperSet == {UpperLetters[i] : i \in 1..26}
LowerSet == {LowerLetters[i] : i \in 1..26}
Latin1UpperSet == {Latin1Upper[i] : i \in 1..Len(Latin1Upper)}
Latin1LowerSet == {Latin1Lower[i] : i \in 1..Len(Latin1Lower)}
CaseMap ==
    [c \in UpperSet \cup Latin1UpperSet |->
        IF c \in UpperSet THEN LowerLetters[CHOOSE i \in 1..26 : UpperLetters[i] = c]
        ELSE Latin1Lower[CHOOSE i \in 1..Len(Latin1Upper) : Latin1Upper[i] = c]]

\* \s of the re module (a str pattern) and the characters str.strip() removes: space,
\* \t, \n, \r, \f, U+000B, U+001C..U+001F, U+0085, U+00A0
Whitespace == {" ", "\t", "\n", "\r", "\f", "", "", "", "", "", "", " "}

\* the characters of Latin-1 beyond ASCII that are alphanumeric without having two cases
Latin1Caseless == {"ß", "ÿ", "ª", "µ", "º", "²", "³", "¹", "¼", "½", "¾"}

\* \w of the re module (a str pattern): str.isalnum() or "_"
WordChars ==
    UpperSet \cup LowerSet \cup Digits \cup {"_"}
    \cup Latin1UpperSet \cup Latin1LowerSet \cup Latin1Caseless
    \cup {LongS, KelvinSign, CapitalIWithDot, DotlessI}

\* str.lower() of a character, where it is one character
ToLower(c) ==
    IF c \in UpperSet \cup Latin1UpperSet THEN CaseMap[c]
    ELSE IF c = KelvinSign THEN "k"
    ELSE c

\* str.lower(): the capital I with dot becomes an i followed by a combining dot
RECURSIVE Lower(_)
Lower(s) ==
    IF s = <<>> THEN <<>>
    ELSE (IF Head(s) = CapitalIWithDot THEN <<"i", CombiningDot>> ELSE <<ToLower(Head(s))>>)
         \o Lower(Tail(s))

\* the representative of the characters that match c under re.IGNORECASE
Fold(c) ==
    IF c = LongS THEN "s"
    ELSE IF c \in {CapitalIWithDot, DotlessI} THEN "i"
    ELSE ToLower(c)

FoldText(s) == [k \in 1..Len(s) |-> Fold(s[k])]

SetMin(S) == CHOOSE x \in S : \A y \in S : x <= y
SetMax(S) == CHOOSE x \in S : \A y \in S : x >= y

-----
(* The regular expressions.  A position i is "after i characters",         *)
(* 0 <= i <= Len(s).                                                       *)

\* \b at position i
WordBoundary(s, i) ==
    ((i >= 1) /\ (s[i] \in WordChars)) # ((i < Len(s)) /\ (s[i+1] \in WordChars))

\* the literal lit, already folded, matches at position i under re.IGNORECASE
LitAtFolded(s, i, lit) ==
    /\ i + Len(lit) <= Len(s)
    /\ \A k \in 1..Len(lit) : Fold(s[i+k]) = lit[k]

LitAt(s, i, lit) == LET folded == FoldText(lit) IN LitAtFolded(s, i, folded)

RESTART_KEYWORDS == << <<"r","e","b","o","o","t">>, <<"r","e","s","t","a","r","t">> >>

SERVICE_KEYWORDS == <<
    <<"e","c","n","/","m","m">>, <<"E","C","N","/","M","M">>, <<"e","c","n"," ","a","n","d"," ","m","m">>, <<"E","C","N"," ","a","n","d"," ","M","M">>, <<"e","c","n">>, <<"m","m">>,
    <<"m","a","r","k","e","t"," ","m","a","k","e","r">>, <<"p","r","i","c","e","-","a","g","g","r","e","g","a","t","o","r">>, <<"p","r","i","c","e","_","a","g","g","r","e","g","a","t","o","r">>, <<"p","a">>,
    <<"m","a","r","k","e","t"," ","d","r","i","v","e","r">>, <<"m","d">>, <<"r","i","s","k"," ","m","a","n","a","g","e","r">>, <<"m","a","n","a","g","e","r">>, <<"M","D","D","R","I","V","E","R">>,
    <<"d","r","i","v","e","r","s">>, <<"d","r","i","v","e","r">>, <<"R","i","s","k","M","a","n","a","g","e","r">> >>

RESTART_FOLDED == [a \in 1..Len(RESTART_KEYWORDS) |-> FoldText(RESTART_KEYWORDS[a])]
SERVICE_FOLDED == [a \in 1..Len(SERVICE_KEYWORDS) |-> FoldText(SERVICE_KEYWORDS[a])]

\* \b(alt1|alt2|...)\b tried at position i: the number of the first alternative
\* that matches there, 0 when none does (alts are folded)
KeywordAt(alts, s, i) ==
    IF ~WordBoundary(s, i) THEN 0
    ELSE LET hits == {a \in 1..Len(alts) :
                        LitAtFolded(s, i, alts[a]) /\ WordBoundary(s, i + Len(alts[a]))}
         IN IF hits = {} THEN 0 ELSE SetMin(hits)

\* pattern.search(s) is not None
re_search(alts, s) == \E i \in 0..Len(s) : KeywordAt(alts, s, i) # 0

RECURSIVE FindAllFrom(_, _, _)
FindAllFrom(alts, s, i) ==
    IF i >= Len(s) THEN <<>>
    ELSE LET a == KeywordAt(alts, s, i)
         IN IF a = 0 THEN FindAllFrom(alts, s, i + 1)
            ELSE <<SubSeq(s, i + 1, i + Len(alts[a]))>>
                 \o FindAllFrom(alts, s, i + Len(alts[a]))

\* pattern.findall(s): the matched texts, left to right, not overlapping
re_findall(alts, s) == FindAllFrom(alts, s, 0)

\* number of whitespace characters that follow position i
WsRun(s, i) ==
    SetMin({j \in i..Len(s) : j = Len(s) \/ s[j+1] \notin Whitespace}) - i

\* match\s*[-\:]\s*(.+?)(?:\n|$) tried with match at position p: group(1), if it matches.
\* The second \s* is greedy and gives characters back until (.+?) finds a character
\* that is not a newline; (.+?) then runs to the next newline or to the end.
DetailsAt(folded, s, p) ==
    LET a == p + Len(folded)
        b == a + WsRun(s, a)
        c == b + 1
        m == c + WsRun(s, c)
        starts == {q \in c..m : q < Len(s) /\ s[q+1] # "\n"}
        q0 == SetMax(starts)
        e == SetMin({j \in (q0+1)..Len(s) : j = Len(s) \/ s[j+1] = "\n"})
    IN IF /\ LitAtFolded(s, p, folded)
          /\ b < Len(s)
          /\ s[b+1] \in {"-", ":"}
          /\ starts # {}
       THEN [found |-> TRUE, group |-> SubSeq(s, q0 + 1, e)]
       ELSE [found |-> FALSE, group |-> <<>>]

\* details_pattern.search(request): the leftmost position where the pattern matches
details_search(match, request) ==
    LET folded == FoldText(match)
        ps == {p \in 0..Len(request) : DetailsAt(folded, request, p).found}
    IN IF ps = {} THEN [found |-> FALSE, group |-> <<>>]
       ELSE DetailsAt(folded, request, SetMin(ps))

\* str.strip()
Strip(s) ==
    LET keep == {k \in 1..Len(s) : s[k] \notin Whitespace}
    IN IF keep = {} THEN <<>> ELSE SubSeq(s, SetMin(keep), SetMax(keep))

\* str.replace("*", "")
RECURSIVE RemoveStars(_)
RemoveStars(s) ==
    IF s = <<>> THEN <<>>
    ELSE (IF Head(s) = "*" THEN <<>> ELSE <<Head(s)>>) \o RemoveStars(Tail(s))

\* re.split(r"\s*[seps]\s*", s): the pieces between the matches of the separator
RECURSIVE re_split(_, _)
re_split(s, seps) ==
    LET at == {i \in 0..Len(s) :
                 LET j == i + WsRun(s, i) IN j < Len(s) /\ s[j+1] \in seps}
    IN IF at = {} THEN <<s>>
       ELSE LET i == SetMin(at)
                j == i + WsRun(s, i)
                e == (j + 1) + WsRun(s, j + 1)
            IN <<SubSeq(s, 1, i)>> \o re_split(SubSeq(s, e + 1, Len(s)), seps)

\* sub in s, case-sensitive
Contains(s, sub) ==
    \E i \in 0..(Len(s) - Len(sub)) : \A k \in 1..Len(sub) : s[i+k] = sub[k]

----------------------------------------------------------------------------
(* RestartAnalyzer *)

\* dict.get("text", "")
GetText(msg) == IF "text" \in DOMAIN msg THEN msg["text"] ELSE <<>>

\* a filter that forgets the service keyword
IsRestartRequest_restart_only(msg) == re_search(RESTART_FOLDED, GetText(msg))

\* the condition of the list comprehension of extract_restart_requests
IsRestartRequest(msg) ==
    /\ re_search(RESTART_FOLDED, GetText(msg))
    /\ re_search(SERVICE_FOLDED, GetText(msg))

RECURSIVE extract_restart_requests(_)
extract_restart_requests(messages) ==
    IF messages = <<>> THEN <<>>
    ELSE (IF IsRestartRequest(Head(messages))
          THEN <<RemoveStars(Head(messages)["text"])>> ELSE <<>>)
         \o extract_restart_requests(Tail(messages))

\* service_dict[key].update(tokens), creating the key when it is missing
DictUpdate(d, key, tokens) ==
    [x \in DOMAIN d \cup {key} |->
        IF x = key THEN (IF key \in DOMAIN d THEN d[key] ELSE {}) \cup tokens ELSE d[x]]

\* service_dict[key] = value
DictSet(d, key, value) ==
    [x \in DOMAIN d \cup {key} |-> IF x = key THEN value ELSE d[x]]

RiskManagerNames == { <<"r","i","s","k","m","a","n","a","g","e","r">>, <<"r","i","s","k","-","m","a","n","a","g","e","r">> }
PriceAggregatorNames == { <<"p","r","i","c","e","-","a","g","g","r","e","g","a","t","o","r">>, <<"p","r","i","c","e","_","a","g","g","r","e","g","a","t","o","r">>, <<"p","a">> }
EcnMmNames == { <<"e","c","n","/","m","m">>, <<"e","c","n"," ","a","n","d"," ","m","m">> }
MarketDriverNames == { <<"d","r","i","v","e","r">>, <<"m","d","d","r","i","v","e","r">>, <<"d","r","i","v","e","r","s">>, <<"m","d">> }
MmNames == { <<"m","m">>, <<"M","M">> }
EcnNames == { <<"e","c","n">>, <<"E","C","N">> }

\* the separators of re.split(r"\s*[,/|]\s*", ...) and of
\* re.split(r"\s*\|\s*|\s*,\s*|\s*\+\s*", ...)
SlashSeparators == {",", "/", "|"}
PlusSeparators == {"|", ",", "+"}

\* a table that forgets the price-aggregator family
CanonicalName_without_pa(service_name) ==
    IF service_name \in EcnMmNames THEN <<"e","c","n","/","m","m">>
    ELSE IF service_name \in MarketDriverNames THEN <<"m","a","r","k","e","t","-","d","r","i","v","e","r">>
    ELSE IF service_name \in MmNames THEN <<"m","m">>
    ELSE IF service_name \in EcnNames THEN <<"e","c","n">>
    ELSE service_name

\* the key under which a lower-cased match with a details clause is stored
CanonicalName(service_name) ==
    IF service_name \in PriceAggregatorNames THEN <<"p","r","i","c","e","-","a","g","g","r","e","g","a","t","o","r">>
    ELSE IF service_name \in EcnMmNames THEN <<"e","c","n","/","m","m">>
    ELSE IF service_name \in MarketDriverNames THEN <<"m","a","r","k","e","t","-","d","r","i","v","e","r">>
    ELSE IF service_name \in MmNames THEN <<"m","m">>
    ELSE IF service_name \in EcnNames THEN <<"e","c","n">>
    ELSE service_name

\* the separators the branch of that match splits on
SeparatorsOf(service_name) ==
    IF service_name \in (PriceAggregatorNames \cup EcnMmNames \cup MarketDriverNames
                         \cup MmNames \cup EcnNames)
    THEN SlashSeparators ELSE PlusSeparators

\* set(map(str.strip, re.split(..., details)))
DetailTokens(details, seps) ==
    LET pieces == re_split(details, seps)
    IN {Strip(pieces[k]) : k \in 1..Len(pieces)}

\* body of "for match in matches"
ProcessMatch(d, request, match) ==
    LET service_name == Lower(match)
        result == details_search(match, request)
    IN IF service_name \in RiskManagerNames
       THEN DictSet(d, <<"r","i","s","k","-","m","a","n","a","g","e","r">>, { <<"1">> })
       ELSE IF result.found
            THEN DictUpdate(d, CanonicalName(service_name),
                            DetailTokens(Strip(result.group), SeparatorsOf(service_name)))
            ELSE d

RECURSIVE ProcessMatches(_, _, _)
ProcessMatches(d, request, matches) ==
    IF matches = <<>> THEN d
    ELSE ProcessMatches(ProcessMatch(d, request, Head(matches)), request, Tail(matches))

\* body of "for request in restart_requests_list"
ProcessRequest(d, request) ==
    ProcessMatches(d, request, re_findall(SERVICE_FOLDED, request))

RECURSIVE ProcessRequests(_, _)
ProcessRequests(d, reqs) ==
    IF reqs = <<>> THEN d
    ELSE ProcessRequests(ProcessRequest(d, Head(reqs)), Tail(reqs))

\* the service_dict extract_services has built when its loop ends: service -> set of details
service_dict(restart_requests_list) == ProcessRequests(<<>>, restart_requests_list)

\* sorted(value, key=len): the sort is stable and a set of str is iterated in an order
\* that depends on the hashes of its members, which differ from one interpreter run
\* to the next; every list of the set's members in non-decreasing length can result
RECURSIVE sorted_by_len(_)
sorted_by_len(value) ==
    IF value = {} THEN {<<>>}
    ELSE LET shortest == SetMin({Len(x) : x \in value})
         IN UNION {{<<x>> \o rest : rest \in sorted_by_len(value \ {x})} :
                     x \in {y \in value : Len(y) = shortest}}

\* the mappings extract_services can return for the service_dict it has built
extract_services(d) == {r \in [DOMAIN d -> UNION {sorted_by_len(d[k]) : k \in DOMAIN d}] :
                           \A k \in DOMAIN d : r[k] \in sorted_by_len(d[k])}

PlusRef == <<"+"," ","R","E","F">>

\* one term of the sum of count_restarts; len(list(sorted(set))) is the set's size
ServiceScore(key, details) ==
    Cardinality(details) * (IF key \in { <<"e","c","n","/","m","m">>, <<"e","c","n"," ","a","n","d"," ","m","m">> } THEN 2 ELSE 1)
    + Cardinality({s \in details : Contains(s, PlusRef)})

RECURSIVE SumScores(_, _)
SumScores(d, keys) ==
    IF keys = {} THEN 0
    ELSE LET k == CHOOSE x \in keys : TRUE
         IN ServiceScore(k, d[k]) + SumScores(d, keys \ {k})

\* restart_num of count_restarts, from the mapping extract_services returned
restart_num(services_names) == SumScores(services_names, DOMAIN services_names)

\* count_restarts without its fetch
score_of(messages) == restart_num(service_dict(extract_restart_requests(messages)))

----------------------------------------------------------------------------
(* src/main.py: the older filter, with optional asterisks in the service   *)
(* pattern and the heading rule.  A pattern element is a character that    *)
(* is either required or optional (\*?).                                   *)

Lit(s) == [k \in 1..Len(s) |-> [c |-> Fold(s[k]), opt |-> FALSE]]
OptStar == << [c |-> "*", opt |-> TRUE] >>

main_service_keywords == <<
    OptStar \o Lit(<<"e","c","n">>) \o OptStar \o Lit(<<"/","m","m">>) \o OptStar,
    OptStar \o Lit(<<"e","c","n">>) \o OptStar \o Lit(<<"/","m","m">>),
    Lit(<<"e","c","n","/","m","m">>), Lit(<<"E","C","N","/","M","M">>), Lit(<<"e","c","n">>), Lit(<<"m","m">>), Lit(<<"m","a","r","k","e","t"," ","m","a","k","e","r">>),
    Lit(<<"p","r","i","c","e","-","a","g","g","r","e","g","a","t","o","r">>), Lit(<<"a","g","g","r","e","g","a","t","o","r">>), Lit(<<"m","a","r","k","e","t"," ","d","r","i","v","e","r">>), Lit(<<"m","d">>),
    Lit(<<"r","i","s","k"," ","m","a","n","a","g","e","r">>), Lit(<<"m","a","n","a","g","e","r">>), Lit(<<"M","D","D","R","I","V","E","R">>) >>

\* the positions at which elements k.. of the pattern can end when started at position i
RECURSIVE PatternEnds(_, _, _, _)
PatternEnds(pat, k, s, i) ==
    IF k > Len(pat) THEN {i}
    ELSE LET here == i < Len(s) /\ Fold(s[i+1]) = pat[k].c
         IN (IF here THEN PatternEnds(pat, k + 1, s, i + 1) ELSE {})
            \cup (IF pat[k].opt THEN PatternEnds(pat, k + 1, s, i) ELSE {})

\* service_keywords.search(text) is not None
main_service_search(s) ==
    \E i \in 0..Len(s) :
        /\ WordBoundary(s, i)
        /\ \E a \in 1..Len(main_service_keywords) :
              \E e \in PatternEnds(main_service_keywords[a], 1, s, i) : WordBoundary(s, e)

StartsWith(s, prefix) == Len(prefix) <= Len(s) /\ SubSeq(s, 1, Len(prefix)) = prefix

\* text.startswith(('*##', '*###', '##', '###'))
HasHeading(s) == \E p \in { <<"*","#","#">>, <<"*","#","#","#">>, <<"#","#">>, <<"#","#","#">> } : StartsWith(s, p)

RECURSIVE main_extract_restart_requests(_)
main_extract_restart_requests(messages) ==
    IF messages = <<>> THEN <<>>
    ELSE LET text == GetText(Head(messages))
         IN (IF /\ re_search(RESTART_FOLDED, text)
                /\ HasHeading(text)
                /\ main_service_search(text)
             THEN <<text>> ELSE <<>>)
            \o main_extract_restart_requests(Tail(messages))

----------------------------------------------------------------------------
(* Inputs of the state machine *)

\* greatest number of messages the day's window holds
MaxWindow == 3
\* since_reset stops counting here
MaxAlerts == 3

\* messages of CHANNEL_ID, listed by timestamp; with ecn/mm counted twice they score
\* 18, 4 and 3
MsgEcnMm9 == [user |-> "U1", text |-> <<"#","#"," ","r","e","s","t","a","r","t"," ","e","c","n","/","m","m",":"," ","a",",","b",",","c",",","d",",","e",",","f",",","g",",","h",",","i">>]
MsgEcnMm2 == [user |-> "U2", text |-> <<"r","e","b","o","o","t"," ","E","C","N"," ","a","n","d"," ","M","M"," ","-"," ","j",","," ","k">>]
MsgPa == [user |-> "U2", text |-> <<"R","e","s","t","a","r","t"," ","p","a",":"," ","x"," ","|"," ","y"," ","+"," ","R","E","F">>]
MessagePool == <<MsgEcnMm9, MsgEcnMm2, MsgPa>>

\* events of the "message" listener
EvRestart == [type |-> "message", user |-> "U1", text |-> <<"R","e","s","t","a","r","t"," ","p","a",":"," ","x">>]
EvChat == [type |-> "message", user |-> "U2", text |-> <<"h","e","l","l","o"," ","t","e","a","m">>]
EvNoUser == [type |-> "message", text |-> <<"r","e","b","o","o","t"," ","m","m">>]
EvNoText == [type |-> "message", user |-> "U1"]
EvBare == [type |-> "message"]
Events == <<EvRestart, EvChat, EvNoUser, EvNoText, EvBare>>

NoEvent == [type |-> "none"]

PoolSet == {MessagePool[k] : k \in 1..Len(MessagePool)}
PoolIndex(m) == CHOOSE k \in 1..Len(MessagePool) : MessagePool[k] = m

\* a message arrives with a timestamp after those of the messages in the window
ArrivesLast(win, m) == \A i \in 1..Len(win) : PoolIndex(win[i]) < PoolIndex(m)

\* every window the day can hold: up to MaxWindow messages of the pool, by timestamp
AllWindows ==
    UNION {{w \in [1..n -> PoolSet] : \A i, j \in 1..n : i < j => PoolIndex(w[i]) < PoolIndex(w[j])}
           : n \in 0..MaxWindow}

\* score_of and the table of extract_services, evaluated once for every window
ScoreMemo == {<<w, score_of(w)>> : w \in AllWindows}
TableMemo == {<<w, service_dict(extract_restart_requests(w))>> : w \in AllWindows}
Memo(table, w) == (CHOOSE p \in table : p[1] = w)[2]

----------------------------------------------------------------------------
(* SlackClient and the two triggers.  The Slack Web API is the             *)
(* environment: each call of it either succeeds or raises, which the       *)
(* actions draw as a boolean (api_ok).                                     *)

ALERT_CHANNEL_ID == "C08DFU192MT"
CHANNEL_ID == "C07UM0ETK5L"
NOTIFICATION_CHANNEL_ID == "C088AHY4UAE"
PING_CHANNEL_ID == "C08KKABJM6Z"

\* "if restarts_count > 20" of handle_messages
FireAbove == 20
\* "if count <= 20 and self.alert_sent" of reset_alert
ResetAtOrBelow == 20

\* the texts of the posts (the count, when the text carries one, is the field count)
AlertText == "Alert! Restart requests exceeded limit"
ListText == "Restart list"
DailyText == "Total restart requests"
ComingText == "Restart is coming soon"
PingText == "Bot is alive!"

\* blocks=None
NoBlocks == <<>>

\* one call of chat_postMessage
Post(channel, text, count, blocks, api_ok) ==
    [channel |-> channel, text |-> text, count |-> count, blocks |-> blocks, ok |-> api_ok]

\* a fetch without its try/except: the failing call raises
fetch_messages_uncaught(win, api_ok) ==
    [messages |-> IF api_ok THEN win ELSE <<>>, raised |-> ~api_ok]

\* SlackClient.fetch_messages: the except clause turns a failing call into []
fetch_messages(win, api_ok) ==
    [messages |-> IF api_ok THEN win ELSE <<>>, raised |-> FALSE]

\* SlackClient.send_message: the except clause logs a failing call
send_message(channel, text, count, blocks, api_ok) ==
    [posts |-> <<Post(channel, text, count, blocks, api_ok)>>, raised |-> FALSE]

\* a send_alert without "if not self.alert_sent"
send_alert_unguarded(flag, channel, count, api_ok) ==
    [alert_sent |-> IF api_ok THEN TRUE ELSE flag,
     posts |-> <<Post(channel, AlertText, count, NoBlocks, api_ok)>>,
     raised |-> FALSE]

\* a send_alert that sets the flag before the post instead of after it
send_alert_latch_first(flag, channel, count, api_ok) ==
    IF ~flag
    THEN [alert_sent |-> TRUE,
          posts |-> <<Post(channel, AlertText, count, NoBlocks, api_ok)>>,
          raised |-> FALSE]
    ELSE [alert_sent |-> flag, posts |-> <<>>, raised |-> FALSE]

\* SlackClient.send_alert: the flag when it returns and the post it made
send_alert(flag, channel, count, api_ok) ==
    IF ~flag
    THEN [alert_sent |-> IF api_ok THEN TRUE ELSE flag,
          posts |-> <<Post(channel, AlertText, count, NoBlocks, api_ok)>>,
          raised |-> FALSE]
    ELSE [alert_sent |-> flag, posts |-> <<>>, raised |-> FALSE]

\* a reset_alert without its test of the count
reset_alert_any_count(flag, count) == IF flag THEN FALSE ELSE flag

\* SlackClient.reset_alert: the value of alert_sent when it returns
reset_alert(flag, count) == IF count <= ResetAtOrBelow /\ flag THEN FALSE ELSE flag

\* what one fetch returned, as the history keeps it
FetchLog(f, api_ok) == [ok |-> api_ok, n |-> Len(f.messages)]

\* RestartAnalyzer.count_restarts
count_restarts(win, api_ok) ==
    LET f == fetch_messages(win, api_ok)
    IN [count |-> IF f.raised THEN 0 ELSE Memo(ScoreMemo, f.messages),
        fetches |-> <<FetchLog(f, api_ok)>>,
        raised |-> f.raised]

\* fetch_messages, extract_restart_requests, extract_services in a row, as daily_check
\* and handle_messages run them to build the table they post
fetch_services(win, api_ok) ==
    LET f == fetch_messages(win, api_ok)
    IN [table |-> IF f.raised THEN <<>> ELSE Memo(TableMemo, f.messages),
        fetches |-> <<FetchLog(f, api_ok)>>,
        raised |-> f.raised]

\* a test that forgets the author
MissingFields_text_only(event) == "text" \notin DOMAIN event

\* "user" not in event or "text" not in event
MissingFields(event) == "user" \notin DOMAIN event \/ "text" \notin DOMAIN event

\* RESTART_KEYWORDS.search(event.get("text", "").lower())
MentionsRestart(event) == re_search(RESTART_FOLDED, Lower(GetText(event)))

\* handle_messages after its call of count_restarts (cr); ls is what the second fetch and
\* extraction return if the handler gets to them
handle_messages(flag, event, cr, ls, ok_alert, ok_list) ==
    IF cr.raised
    THEN [alert_sent |-> flag, count |-> 0, posts |-> <<>>,
          fetches |-> cr.fetches, raised |-> TRUE]
    ELSE IF MissingFields(event)
    THEN [alert_sent |-> reset_alert(flag, cr.count), count |-> cr.count, posts |-> <<>>,
          fetches |-> cr.fetches, raised |-> FALSE]
    ELSE IF MentionsRestart(event) /\ cr.count > FireAbove
    THEN LET sa == send_alert(flag, ALERT_CHANNEL_ID, cr.count, ok_alert)
             sm == send_message(ALERT_CHANNEL_ID, ListText, 0, ls.table, ok_list)
         IN IF ls.raised
            THEN [alert_sent |-> sa.alert_sent, count |-> cr.count, posts |-> sa.posts,
                  fetches |-> cr.fetches \o ls.fetches, raised |-> TRUE]
            ELSE [alert_sent |-> sa.alert_sent, count |-> cr.count,
                  posts |-> sa.posts \o sm.posts,
                  fetches |-> cr.fetches \o ls.fetches, raised |-> sm.raised]
    ELSE [alert_sent |-> flag, count |-> cr.count, posts |-> <<>>,
          fetches |-> cr.fetches, raised |-> FALSE]

\* a daily_check that raises the alert itself when the count is above the limit
daily_check_alerting(ls, cr, ok_daily, ok_table) ==
    LET alert == send_message(ALERT_CHANNEL_ID, AlertText, cr.count, NoBlocks, ok_daily)
        table == send_message(NOTIFICATION_CHANNEL_ID, ComingText, 0, ls.table, ok_table)
    IN [count |-> cr.count,
        posts |-> (IF cr.count > FireAbove THEN alert.posts ELSE <<>>) \o table.posts,
        fetches |-> ls.fetches \o cr.fetches,
        raised |-> FALSE]

\* RestartScheduler.daily_check: ls is its own fetch and extraction, cr its call of
\* count_restarts, which fetches again
daily_check(ls, cr, ok_daily, ok_table) ==
    LET daily == send_message(NOTIFICATION_CHANNEL_ID, DailyText, cr.count, NoBlocks, ok_daily)
        table == send_message(NOTIFICATION_CHANNEL_ID, ComingText, 0, ls.table, ok_table)
    IN IF ls.raised
       THEN [count |-> 0, posts |-> <<>>, fetches |-> ls.fetches, raised |-> TRUE]
       ELSE IF cr.raised
       THEN [count |-> 0, posts |-> <<>>, fetches |-> ls.fetches \o cr.fetches,
             raised |-> TRUE]
       ELSE [count |-> cr.count, posts |-> daily.posts \o table.posts,
             fetches |-> ls.fetches \o cr.fetches,
             raised |-> daily.raised \/ table.raised]

\* RestartScheduler.send_ping
send_ping(api_ok) ==
    LET ping == send_message(PING_CHANNEL_ID, PingText, 0, NoBlocks, api_ok)
    IN [count |-> 0, posts |-> ping.posts, fetches |-> <<>>, raised |-> ping.raised]

----------------------------------------------------------------------------
(* The state machine *)

\* the history record of one operation
Record(op, event, before, retry, r) ==
    [op |-> op, event |-> event, before |-> before, retry_before |-> retry,
     count |-> r.count, posts |-> r.posts, fetches |-> r.fetches, raised |-> r.raised]

Quiet == [count |-> 0, posts |-> <<>>, fetches |-> <<>>, raised |-> FALSE]

AlertPosts(posts) == {k \in 1..Len(posts) : posts[k].text = AlertText}
AlertDelivered(posts) == \E k \in AlertPosts(posts) : posts[k].ok
AlertFailed(posts) == \E k \in AlertPosts(posts) : ~posts[k].ok

Init ==
    /\ alert_sent = FALSE
    /\ window = <<>>
    /\ scheduler_running = TRUE
    /\ last = Record("start", NoEvent, FALSE, FALSE, Quiet)
    /\ since_reset = 0
    /\ retry_pending = FALSE
    /\ pc = <<>>
    /\ hlocal = <<>>
    /\ lost_reset = FALSE
    /\ batch = <<>>
    /\ requests = <<>>
    /\ main_requests = [done |-> FALSE, kept |-> <<>>]
    /\ services = <<>>
    /\ total = 0
    /\ report = <<>>
    /\ stage = "off"

\* the history counters, from the flag before and after an operation and its posts
SinceReset(n, before, after, posts) ==
    IF AlertDelivered(posts) THEN (IF n < MaxAlerts THEN n + 1 ELSE n)
    ELSE IF before /\ ~after THEN 0
    ELSE n

RetryPending(p, posts) ==
    IF AlertDelivered(posts) THEN FALSE
    ELSE IF AlertFailed(posts) THEN TRUE
    ELSE p

\* a message arrives in CHANNEL_ID
PostMessage ==
    \E k \in 1..Len(MessagePool) :
        /\ Len(window) < MaxWindow
        /\ ArrivesLast(window, MessagePool[k])
        /\ window' = Append(window, MessagePool[k])
        /\ last' = Record("post_message", NoEvent, alert_sent, retry_pending, Quiet)
        /\ UNCHANGED <<alert_sent, scheduler_running, since_reset, retry_pending>>
        /\ UNCHANGED <<thread_vars, pure_vars>>

\* a message of CHANNEL_ID is deleted
DeleteMessage ==
    \E k \in 1..Len(window) :
        /\ window' = SubSeq(window, 1, k - 1) \o SubSeq(window, k + 1, Len(window))
        /\ last' = Record("delete_message", NoEvent, alert_sent, retry_pending, Quiet)
        /\ UNCHANGED <<alert_sent, scheduler_running, since_reset, retry_pending>>
        /\ UNCHANGED <<thread_vars, pure_vars>>

\* midnight UTC: the window of the new day is empty
NewDay ==
    /\ window # <<>>
    /\ window' = <<>>
    /\ last' = Record("new_day", NoEvent, alert_sent, retry_pending, Quiet)
    /\ UNCHANGED <<alert_sent, scheduler_running, since_reset, retry_pending>>
    /\ UNCHANGED <<thread_vars, pure_vars>>

\* what CHANNEL_ID can hold at a later fetch of the same operation: between two fetches
\* any number of messages can arrive or be deleted and the UTC day can change, so every
\* window can follow every other
LaterWindows(win) == AllWindows

\* handle_messages gets as far as its second fetch: the event has both fields, its text
\* has a restart keyword and the count is above the limit
ReachesSecondFetch(event, cr) ==
    /\ ~cr.raised
    /\ ~MissingFields(event)
    /\ MentionsRestart(event)
    /\ cr.count > FireAbove

\* one event of the "message" listener, handled from ack() to return.  count_restarts
\* fetches the window; when the alert branch runs, the handler fetches again after the
\* alert post and reads whatever the channel holds by then.
HandleMessages ==
    \E e \in 1..Len(Events), ok_count \in BOOLEAN :
        LET cr == count_restarts(window, ok_count)
        IN \E later \in (IF ReachesSecondFetch(Events[e], cr)
                         THEN LaterWindows(window) ELSE {window}) :
            \E ok_fetch, ok_alert, ok_list \in BOOLEAN :
                LET ls == fetch_services(later, ok_fetch)
                    r == handle_messages(alert_sent, Events[e], cr, ls, ok_alert, ok_list)
                IN /\ alert_sent' = r.alert_sent
                   /\ last' = Record("handle_messages", Events[e], alert_sent,
                                     retry_pending, r)
                   /\ since_reset' = SinceReset(since_reset, alert_sent, r.alert_sent,
                                                r.posts)
                   /\ retry_pending' = RetryPending(retry_pending, r.posts)
                   /\ window' = later
                   /\ UNCHANGED scheduler_running
                   /\ UNCHANGED <<thread_vars, pure_vars>>

\* the 20:30 job of start_scheduler; an exception leaving it ends the while-loop.  The
\* job fetches the window itself and again inside count_restarts, and the second fetch
\* reads whatever the channel holds by then.
DailyCheck ==
    /\ scheduler_running
    /\ \E ok_fetch, ok_count \in BOOLEAN, later \in LaterWindows(window) :
        LET ls == fetch_services(window, ok_fetch)
            cr == count_restarts(later, ok_count)
        IN \E ok_daily, ok_table \in BOOLEAN :
            LET r == daily_check(ls, cr, ok_daily, ok_table)
            IN /\ last' = Record("daily_check", NoEvent, alert_sent, retry_pending, r)
               /\ scheduler_running' = ~r.raised
               /\ window' = later
               /\ UNCHANGED <<alert_sent, since_reset, retry_pending>>
               /\ UNCHANGED <<thread_vars, pure_vars>>

\* the every-minute job of start_scheduler
SendPing ==
    /\ scheduler_running
    /\ \E api_ok \in BOOLEAN :
        LET r == send_ping(api_ok)
        IN /\ last' = Record("send_ping", NoEvent, alert_sent, retry_pending, r)
           /\ scheduler_running' = ~r.raised
           /\ UNCHANGED <<alert_sent, window, since_reset, retry_pending>>
           /\ UNCHANGED <<thread_vars, pure_vars>>

Next ==
    \/ PostMessage
    \/ DeleteMessage
    \/ NewDay
    \/ HandleMessages
    \/ DailyCheck
    \/ SendPing

\* the handler invocations run one at a time
Spec == Init /\ [][Next]_vars

----------------------------------------------------------------------------
(* Concurrent handler invocations.  SocketModeHandler hands every event to  *)
(* a worker thread and Bolt runs the listener on its executor, so several   *)
(* handle_messages run at once on the one SlackClient; nothing in           *)
(* send_alert or reset_alert locks alert_sent.  A thread can be preempted   *)
(* between the read of alert_sent, the call of the Web API and the write.   *)

\* handler threads that run at once
NumHandlers == 2
Handlers == 1..NumHandlers

\* the messages that arrive in this specification: they score 18 and 4, together 22
ConcPool == <<MsgEcnMm9, MsgEcnMm2>>

InitConc ==
    /\ alert_sent = FALSE
    /\ window = <<>>
    /\ scheduler_running = TRUE
    /\ last = Record("start", NoEvent, FALSE, FALSE, Quiet)
    /\ since_reset = 0
    /\ retry_pending = FALSE
    /\ pc = [h \in Handlers |-> "idle"]
    /\ hlocal = [h \in Handlers |-> [count |-> 0, stale |-> FALSE]]
    /\ lost_reset = FALSE
    /\ batch = <<>>
    /\ requests = <<>>
    /\ main_requests = [done |-> FALSE, kept |-> <<>>]
    /\ services = <<>>
    /\ total = 0
    /\ report = <<>>
    /\ stage = "off"

conc_frame == <<scheduler_running, last, pure_vars>>

\* a message arrives in CHANNEL_ID
ConcPostMessage ==
    \E k \in 1..Len(ConcPool) :
        /\ Len(window) < MaxWindow
        /\ ArrivesLast(window, ConcPool[k])
        /\ window' = Append(window, ConcPool[k])
        /\ UNCHANGED <<alert_sent, since_reset, retry_pending, thread_vars, conc_frame>>

\* midnight UTC
ConcNewDay ==
    /\ window # <<>>
    /\ window' = <<>>
    /\ UNCHANGED <<alert_sent, since_reset, retry_pending, thread_vars, conc_frame>>

\* handle_messages up to its branch: ack(), count_restarts, the test of the event's keys
\* and the test of the keyword and of the count
HBegin(h) ==
    /\ pc[h] = "idle"
    /\ \E e \in 1..Len(Events), api_ok \in BOOLEAN :
        LET cr == count_restarts(window, api_ok)
        IN /\ hlocal' = [hlocal EXCEPT ![h] = [count |-> cr.count, stale |-> FALSE]]
           /\ pc' = [pc EXCEPT ![h] =
                        IF MissingFields(Events[e]) THEN "reset"
                        ELSE IF MentionsRestart(Events[e]) /\ cr.count > FireAbove
                             THEN "check" ELSE "idle"]
    /\ UNCHANGED <<alert_sent, window, since_reset, retry_pending, lost_reset, conc_frame>>

\* reset_alert: the test "count <= 20 and self.alert_sent"
HResetTest(h) ==
    /\ pc[h] = "reset"
    /\ pc' = [pc EXCEPT ![h] =
                 IF hlocal[h].count <= ResetAtOrBelow /\ alert_sent THEN "clear" ELSE "idle"]
    /\ UNCHANGED <<alert_sent, window, since_reset, retry_pending, hlocal, lost_reset,
                   conc_frame>>

\* reset_alert: self.alert_sent = False; the threads that have read the flag and have not
\* written it yet now hold a stale decision
HResetWrite(h) ==
    /\ pc[h] = "clear"
    /\ alert_sent' = FALSE
    /\ since_reset' = 0
    /\ hlocal' = [g \in Handlers |->
                    IF pc[g] \in {"post", "set"} THEN [hlocal[g] EXCEPT !.stale = TRUE]
                    ELSE hlocal[g]]
    /\ pc' = [pc EXCEPT ![h] = "idle"]
    /\ UNCHANGED <<window, retry_pending, lost_reset, conc_frame>>

\* send_alert: the test "if not self.alert_sent"
HCheck(h) ==
    /\ pc[h] = "check"
    /\ pc' = [pc EXCEPT ![h] = IF ~alert_sent THEN "post" ELSE "list"]
    /\ UNCHANGED <<alert_sent, window, since_reset, retry_pending, hlocal, lost_reset,
                   conc_frame>>

\* send_alert: chat_postMessage of the alert
HPost(h) ==
    /\ pc[h] = "post"
    /\ \E api_ok \in BOOLEAN :
        /\ pc' = [pc EXCEPT ![h] = IF api_ok THEN "set" ELSE "list"]
        /\ since_reset' = IF api_ok /\ since_reset < MaxAlerts
                          THEN since_reset + 1 ELSE since_reset
        /\ retry_pending' = ~api_ok
    /\ UNCHANGED <<alert_sent, window, hlocal, lost_reset, conc_frame>>

\* send_alert: self.alert_sent = True
HSet(h) ==
    /\ pc[h] = "set"
    /\ alert_sent' = TRUE
    /\ lost_reset' = (lost_reset \/ hlocal[h].stale)
    /\ pc' = [pc EXCEPT ![h] = "list"]
    /\ UNCHANGED <<window, since_reset, retry_pending, hlocal, conc_frame>>

\* the rest of handle_messages: the second fetch and the post of the "Restart list"
HList(h) ==
    /\ pc[h] = "list"
    /\ pc' = [pc EXCEPT ![h] = "idle"]
    /\ UNCHANGED <<alert_sent, window, since_reset, retry_pending, hlocal, lost_reset,
                   conc_frame>>

NextConc ==
    \/ ConcPostMessage
    \/ ConcNewDay
    \/ \E h \in Handlers : HBegin(h)
    \/ \E h \in Handlers : HResetTest(h)
    \/ \E h \in Handlers : HResetWrite(h)
    \/ \E h \in Handlers : HCheck(h)
    \/ \E h \in Handlers : HPost(h)
    \/ \E h \in Handlers : HSet(h)
    \/ \E h \in Handlers : HList(h)

\* the handler invocations overlap
SpecConc == InitConc /\ [][NextConc]_vars

----------------------------------------------------------------------------
(* The pure pipeline on its own: a batch of messages is filtered, its       *)
(* services are extracted and scored.                                       *)

\* greatest number of messages in a batch
MaxBatch == 2

PurePool == {
    [text |-> <<"r","e","s","t","a","r","t"," ","r","i","s","k"," ","m","a","n","a","g","e","r",":"," ","A">>],
    [text |-> <<"R","e","b","o","o","t"," ","m","a","n","a","g","e","r"," ","-"," ","B">>],
    [text |-> <<"r","e","s","t","a","r","t"," ","R","i","s","k","M","a","n","a","g","e","r",":"," ","C">>],
    [text |-> <<"r","e","s","t","a","r","t"," ","r","i","s","k","m","a","n","a","g","e","r">>],
    [text |-> <<"#","#"," ","r","e","s","t","a","r","t"," ","e","c","n","/","m","m"," ","-"," ","B","o","o","k","A",","," ","B","o","o","k","B">>],
    [text |-> <<"r","e","s","t","a","r","t"," ","m","a","r","k","e","t"," ","d","r","i","v","e","r",":"," ","A",","," ","B"," ","+"," ","R","E","F">>],
    [text |-> <<"*","#","#"," ","R","E","S","T","A","R","T","*"," ","p","a",":"," ","p",","," ","p"," ",",","q",",">>],
    [text |-> <<"#","#","#"," ","R","e","b","o","o","t"," ","a","g","g","r","e","g","a","t","o","r",":"," ","z">>],
    [text |-> <<"r","e","s","t","a","r","t","e","d"," ","e","c","n",":"," ","x">>],
    [text |-> <<"#","#"," ","r","e","s","t","a","r","t"," ","s","p","a",":"," ","y">>],
    [text |-> <<"e","c","n",":"," ","z">>],
    [text |-> <<"h","e","l","l","o"," ","t","e","a","m">>],
    [text |-> <<"r","e","s","t","a","r","t"," ","e","c","n",":"," ","A"," ","+"," ","B">>],
    [text |-> <<"r","e","s","t","a","r","t"," ","e","c","n",":"," ","A","\n","e","c","n",":"," ","B">>],
    [text |-> <<"r","e","b","o","o","t"," ","M","D"," ","-"," ","v">>],
    [ts |-> "1700000000.000100"] }

Batches == UNION {[1..n -> PurePool] : n \in 0..MaxBatch}

InitPure ==
    /\ alert_sent = FALSE
    /\ window = <<>>
    /\ scheduler_running = TRUE
    /\ last = Record("start", NoEvent, FALSE, FALSE, Quiet)
    /\ since_reset = 0
    /\ retry_pending = FALSE
    /\ pc = <<>>
    /\ hlocal = <<>>
    /\ lost_reset = FALSE
    /\ batch \in Batches
    /\ requests = <<>>
    /\ main_requests = [done |-> FALSE, kept |-> <<>>]
    /\ services = <<>>
    /\ total = 0
    /\ report = <<>>
    /\ stage = "input"

\* RestartAnalyzer.extract_restart_requests(batch)
Filter ==
    /\ stage = "input"
    /\ requests' = extract_restart_requests(batch)
    /\ stage' = "filtered"
    /\ UNCHANGED <<machine_vars, thread_vars, batch, main_requests, services, total, report>>

\* main.extract_restart_requests(batch)
MainFilter ==
    /\ stage = "input"
    /\ ~main_requests.done
    /\ main_requests' = [done |-> TRUE, kept |-> main_extract_restart_requests(batch)]
    /\ UNCHANGED <<machine_vars, thread_vars, batch, requests, services, total, report, stage>>

\* RestartAnalyzer.extract_services(requests), up to its return statement
Extract ==
    /\ stage = "filtered"
    /\ services' = service_dict(requests)
    /\ stage' = "extracted"
    /\ UNCHANGED <<machine_vars, thread_vars, batch, requests, main_requests, total, report>>

\* the return statement of extract_services
Return ==
    /\ stage = "extracted"
    /\ report' \in extract_services(services)
    /\ stage' = "returned"
    /\ UNCHANGED <<machine_vars, thread_vars, batch, requests, main_requests, services, total>>

\* the sum of count_restarts over the returned mapping; a list is as long as its set
Count ==
    /\ stage = "returned"
    /\ total' = restart_num(services)
    /\ stage' = "counted"
    /\ UNCHANGED <<machine_vars, thread_vars, batch, requests, main_requests, services,
                   report>>

NextPure == Filter \/ MainFilter \/ Extract \/ Return \/ Count

SpecPure == InitPure /\ [][NextPure]_vars

----------------------------------------------------------------------------
(* Properties.  The formulas read the history record of the operation that  *)
(* ran last; they state what the claims say in their own terms, not through *)
(* the operators that model the handler.                                    *)

EventLacksField(e) == "user" \notin DOMAIN e \/ "text" \notin DOMAIN e

\* word occurs in text at position i as a whole word, letter case ignored
WholeWordAt(text, word, i) ==
    /\ i + Len(word) <= Len(text)
    /\ \A k \in 1..Len(word) : Fold(text[i+k]) = Fold(word[k])
    /\ (i = 0 \/ text[i] \notin WordChars)
    /\ (i + Len(word) = Len(text) \/ text[i + Len(word) + 1] \notin WordChars)

HasWholeWord(text, words) ==
    \E w \in words : \E i \in 0..Len(text) : WholeWordAt(text, w, i)

RestartWords == { <<"r","e","s","t","a","r","t">>, <<"r","e","b","o","o","t">> }
EventHasRestartWord(e) == "text" \in DOMAIN e /\ HasWholeWord(e["text"], RestartWords)

\* the evaluation recorded in rec is one of an event with author and text that names
\* a restart, made with a count above the limit
Fires(rec) ==
    /\ rec.op = "handle_messages"
    /\ ~EventLacksField(rec.event)
    /\ EventHasRestartWord(rec.event)
    /\ rec.count > FireAbove

Handled == last.op = "handle_messages"

\* C1: with the handler invocations run one at a time, no second alert is delivered
\* unless alert_sent was cleared since the first; an evaluation that finds the flag
\* set with the count above 20 posts no alert
C1_OneAlertPerReset ==
    /\ since_reset <= 1
    /\ (Handled /\ last.before /\ last.count > FireAbove) => AlertPosts(last.posts) = {}

C1_Witness ==
    /\ Fires(last)
    /\ last.before
    /\ alert_sent
    /\ since_reset = 1
    /\ AlertPosts(last.posts) = {}

\* C2 (as claimed): every evaluation that finds the flag set and, its fetch having
\* succeeded, a count <= 20 clears the flag
C2_AnyEvaluationResets ==
    (/\ Handled
     /\ last.before
     /\ last.count <= ResetAtOrBelow
     /\ \A k \in 1..Len(last.fetches) : last.fetches[k].ok) => ~alert_sent

\* C3: a failed alert post leaves alert_sent false, the flag stays clear for as long as
\* no alert post has succeeded, and the next firing evaluation posts the alert again
C3_FailedPostDoesNotLatch ==
    /\ (Handled /\ AlertFailed(last.posts)) => ~alert_sent
    /\ retry_pending => ~alert_sent
    /\ (Fires(last) /\ last.retry_before) => AlertPosts(last.posts) # {}

C3_Witness ==
    /\ Fires(last)
    /\ last.retry_before
    /\ AlertDelivered(last.posts)
    /\ alert_sent

\* C4 (as claimed): also when handler invocations overlap, at most one alert is delivered
\* between two resets of the flag, and no reset is overwritten by a handler that read
\* the flag before it
C4_Serialized ==
    /\ since_reset <= 1
    /\ ~lost_reset

\* C5: an event without "user" or without "text" posts nothing, and the flag afterwards
\* is the flag before, cleared when it was set and the count is <= 20
C5_MissingFieldsOnlyReset ==
    (Handled /\ EventLacksField(last.event)) =>
        /\ last.posts = <<>>
        /\ alert_sent = (last.before /\ ~(last.count <= ResetAtOrBelow))

C5_Witness ==
    /\ Handled
    /\ "user" \notin DOMAIN last.event
    /\ EventHasRestartWord(last.event)
    /\ last.count > FireAbove
    /\ ~last.before
    /\ ~alert_sent

\* C6 (as claimed): every evaluation of an event with author and text, made with the
\* flag clear and the count above 20, posts exactly one alert, which carries the count
C6_AlertWhateverTheText ==
    (Handled /\ ~EventLacksField(last.event) /\ ~last.before /\ last.count > FireAbove) =>
        /\ Cardinality(AlertPosts(last.posts)) = 1
        /\ \A k \in AlertPosts(last.posts) : last.posts[k].count = last.count

\* C7: the flag is set only by a handler evaluation with count > 20 whose alert post
\* succeeded, cleared only by a handler evaluation with count <= 20, and left alone by
\* every other operation
C7_FlagChangesOnlyOnCrossing ==
    /\ (~last.before /\ alert_sent) =>
          (Handled /\ last.count > FireAbove /\ AlertDelivered(last.posts))
    /\ (last.before /\ ~alert_sent) => (Handled /\ last.count <= ResetAtOrBelow)

C7_Witness ==
    /\ Handled
    /\ last.before
    /\ ~alert_sent
    /\ last.count <= ResetAtOrBelow

\* C8: a failing fetch yields [], no operation ends with an exception, and the
\* scheduler loop stays alive
C8_FailuresAreContained ==
    /\ ~last.raised
    /\ scheduler_running
    /\ \A k \in 1..Len(last.fetches) : ~last.fetches[k].ok => last.fetches[k].n = 0

C8_Witness ==
    /\ last.op = "daily_check"
    /\ window # <<>>
    /\ Len(last.fetches) = 2
    /\ \A k \in 1..Len(last.fetches) : ~last.fetches[k].ok
    /\ Len(last.posts) = 2
    /\ \A k \in 1..Len(last.posts) : ~last.posts[k].ok
    /\ scheduler_running

\* the service vocabulary of bot.py and that of main.py, as words
ServiceWords == {SERVICE_KEYWORDS[a] : a \in 1..Len(SERVICE_KEYWORDS)}
MainServiceWords == { <<"e","c","n","/","m","m">>, <<"e","c","n">>, <<"m","m">>, <<"m","a","r","k","e","t"," ","m","a","k","e","r">>, <<"p","r","i","c","e","-","a","g","g","r","e","g","a","t","o","r">>,
                      <<"a","g","g","r","e","g","a","t","o","r">>, <<"m","a","r","k","e","t"," ","d","r","i","v","e","r">>, <<"m","d">>, <<"r","i","s","k"," ","m","a","n","a","g","e","r">>,
                      <<"m","a","n","a","g","e","r">>, <<"m","d","d","r","i","v","e","r">> }

HasBothKeywords(msg, vocabulary) ==
    /\ "text" \in DOMAIN msg
    /\ HasWholeWord(msg["text"], RestartWords)
    /\ HasWholeWord(msg["text"], vocabulary)

BeginsWithHeading(msg) ==
    /\ "text" \in DOMAIN msg
    /\ \E n \in 2..4 : Len(msg["text"]) >= n
          /\ SubSeq(msg["text"], 1, n) \in { <<"#","#">>, <<"#","#","#">>, <<"*","#","#">>, <<"*","#","#","#">> }

RECURSIVE Chosen(_, _, _)
\* the messages of a batch that satisfy Keep, in order
Chosen(messages, vocabulary, heading) ==
    IF messages = <<>> THEN <<>>
    ELSE (IF /\ HasBothKeywords(Head(messages), vocabulary)
             /\ (heading => BeginsWithHeading(Head(messages)))
          THEN <<Head(messages)>> ELSE <<>>)
         \o Chosen(Tail(messages), vocabulary, heading)

WithoutStars(s) == SelectSeq(s, LAMBDA c : c # "*")

BotKeepsExactly(heading) ==
    stage # "input" =>
        LET want == Chosen(batch, ServiceWords, heading)
        IN requests = [k \in 1..Len(want) |-> WithoutStars(want[k]["text"])]

MainKeepsExactly(heading) ==
    main_requests.done =>
        LET want == Chosen(batch, MainServiceWords, heading)
        IN main_requests.kept = [k \in 1..Len(want) |-> want[k]["text"]]

\* C9 (as claimed): both extract_restart_requests keep exactly the messages whose text
\* holds a restart keyword and a service keyword as whole words
C9_KeepsIffBothKeywords ==
    /\ BotKeepsExactly(FALSE)
    /\ MainKeepsExactly(FALSE)

\* C9 (amended): RestartAnalyzer.extract_restart_requests keeps exactly those messages;
\* main.extract_restart_requests keeps exactly those of them that also begin with a
\* heading marker, so there the two keywords are necessary and not sufficient
C9_KeepsIffBothKeywordsAndHeading ==
    /\ BotKeepsExactly(FALSE)
    /\ MainKeepsExactly(TRUE)

C9_Witness ==
    /\ stage = "filtered"
    /\ main_requests.done
    /\ Len(batch) = 2
    /\ Len(requests) = 1
    /\ main_requests.kept = <<>>
    /\ \E k \in 1..2 : "text" \notin DOMAIN batch[k]

RiskManagerWords == { <<"r","i","s","k"," ","m","a","n","a","g","e","r">>, <<"r","i","s","k","m","a","n","a","g","e","r">>, <<"m","a","n","a","g","e","r">> }
RiskManagerKey == <<"r","i","s","k","-","m","a","n","a","g","e","r">>

\* C10 (as claimed): once a request names a risk-manager synonym, the mapping holds
\* 'risk-manager' with exactly the detail '1', holds no raw synonym as a key, and the
\* risk manager adds exactly 1 to the score
C10_RiskManagerSentinel ==
    (/\ stage \in {"extracted", "counted"}
     /\ \E k \in 1..Len(requests) : HasWholeWord(requests[k], RiskManagerWords)) =>
        /\ RiskManagerKey \in DOMAIN services
        /\ services[RiskManagerKey] = { <<"1">> }
        /\ DOMAIN services \cap RiskManagerWords = {}
        /\ (stage = "counted" /\ DOMAIN services \subseteq {RiskManagerKey}) => total = 1


----------------------------------------------------------------------------
(* Extraction and scoring *)

Extracted == stage \in {"extracted", "returned", "counted"}

\* the separators the details of a service are split on, as stated for the extraction
MergedServices == { <<"e","c","n","/","m","m">>, <<"p","r","i","c","e","-","a","g","g","r","e","g","a","t","o","r">>, <<"m","a","r","k","e","t","-","d","r","i","v","e","r">> }
StatedSeparators(key) ==
    IF key \in MergedServices THEN {",", "/", "|"} ELSE {",", "|", "+"}

\* C11 (as claimed): a detail token of ecn/mm, price-aggregator or market-driver holds no
\* comma, slash or pipe, and a detail token of any other service, ecn and mm included,
\* holds no comma, pipe or plus sign, these being the separators of its details clause
C11_SeparatorPerService ==
    Extracted =>
        \A key \in DOMAIN services : \A tok \in services[key] :
            \A k \in 1..Len(tok) : tok[k] \notin StatedSeparators(key)

Returned == stage \in {"returned", "counted"}

\* C12 (as claimed): in the returned mapping every detail is a non-empty token without
\* whitespace around it, and no detail list holds a token twice
C12_TrimmedNonEmptyOnce ==
    Returned =>
        \A key \in DOMAIN report :
            LET details == report[key]
            IN /\ \A k \in 1..Len(details) :
                     /\ details[k] # <<>>
                     /\ details[k][1] \notin Whitespace
                     /\ details[k][Len(details[k])] \notin Whitespace
               /\ \A i, j \in 1..Len(details) : i # j => details[i] # details[j]

AnySeparator == {",", "/", "|", "+"}

\* the pieces of the details clause that follows the keyword occurrence at position i of
\* request, when a colon or hyphen introduces one there
ClausePieces(request, i) ==
    LET a == KeywordAt(SERVICE_FOLDED, request, i)
        clause == DetailsAt(SERVICE_FOLDED[a], request, i)
    IN IF a = 0 \/ SERVICE_FOLDED[a] \in RiskManagerNames \/ ~clause.found THEN {}
       ELSE DetailTokens(Strip(clause.group), AnySeparator) \ {<<>>}

Recorded(piece) ==
    \E key \in DOMAIN services : \E tok \in services[key] : Contains(tok, piece)

\* C13 (as claimed): every occurrence of a service keyword contributes the details clause
\* that follows it, so every piece of every such clause is found in the details recorded
\* for the batch, also when the keyword is repeated on a later line
C13_EveryOccurrenceContributes ==
    Extracted =>
        \A r \in 1..Len(requests) : \A i \in 0..Len(requests[r]) :
            \A piece \in ClausePieces(requests[r], i) : Recorded(piece)

Ref == <<"R","E","F">>

\* the score as stated: tokens times weight, plus one for every token that holds "REF"
RECURSIVE StatedScore(_, _)
StatedScore(mapping, keys) ==
    IF keys = {} THEN 0
    ELSE LET key == CHOOSE x \in keys : TRUE
             details == mapping[key]
         IN Len(details) * (IF key = <<"e","c","n","/","m","m">> THEN 2 ELSE 1)
            + Cardinality({k \in 1..Len(details) : Contains(details[k], Ref)})
            + StatedScore(mapping, keys \ {key})

\* C14 (as claimed): the count of count_restarts is the weighted number of detail tokens
\* of the returned mapping plus one for every token that contains the substring REF
C14_RefBonusPerToken ==
    stage = "counted" => total = StatedScore(report, DOMAIN report)

\* the three families of synonyms, lower-cased, and the key stated for each
EcnMmFamily == { <<"e","c","n","/","m","m">>, <<"e","c","n"," ","a","n","d"," ","m","m">> }
PriceAggregatorFamily == { <<"p","r","i","c","e","-","a","g","g","r","e","g","a","t","o","r">>, <<"p","r","i","c","e","_","a","g","g","r","e","g","a","t","o","r">>, <<"p","a">> }
MarketDriverFamily == { <<"d","r","i","v","e","r">>, <<"m","d","d","r","i","v","e","r">>, <<"d","r","i","v","e","r","s">>, <<"m","d">> }
FamilyWords == EcnMmFamily \cup PriceAggregatorFamily \cup MarketDriverFamily
FamilyKeys == { <<"e","c","n","/","m","m">>, <<"p","r","i","c","e","-","a","g","g","r","e","g","a","t","o","r">>, <<"m","a","r","k","e","t","-","d","r","i","v","e","r">> }
StatedKey(word) ==
    IF word \in EcnMmFamily THEN <<"e","c","n","/","m","m">>
    ELSE IF word \in PriceAggregatorFamily THEN <<"p","r","i","c","e","-","a","g","g","r","e","g","a","t","o","r">>
    ELSE <<"m","a","r","k","e","t","-","d","r","i","v","e","r">>

\* C15: no synonym of the three families, in any letter case, is a key of the mapping
\* unless it is the canonical key itself, and every matched synonym that has a details
\* clause is recorded under the key of its family, whatever its letter case
C15_FamiliesUnderCanonicalKey ==
    Extracted =>
        /\ \A key \in DOMAIN services : Lower(key) \in FamilyWords => key \in FamilyKeys
        /\ \A r \in 1..Len(requests) :
              LET matches == re_findall(SERVICE_FOLDED, requests[r])
              IN \A m \in 1..Len(matches) :
                    (/\ Lower(matches[m]) \in FamilyWords
                     /\ details_search(matches[m], requests[r]).found)
                    => StatedKey(Lower(matches[m])) \in DOMAIN services

C15_Witness ==
    /\ Extracted
    /\ Len(requests) = 2
    /\ DOMAIN services = { <<"p","r","i","c","e","-","a","g","g","r","e","g","a","t","o","r">>, <<"m","a","r","k","e","t","-","d","r","i","v","e","r">> }
    /\ \E r \in 1..2 : re_findall(SERVICE_FOLDED, requests[r]) = << <<"M","D">> >>

\* the characters of the tokens in ascending code point order
Alphabet ==
    <<" ", "*", "+", ",", "-", "/", "0", "1", "2", "3", "4", "5", "6", "7", "8", "9", ":">>
    \o UpperLetters \o <<"_">> \o LowerLetters \o <<"|">>
Ord(c) == CHOOSE i \in 1..Len(Alphabet) : Alphabet[i] = c

\* a comes before b in lexicographic order, for two tokens of the same length
LexLess(a, b) ==
    \E k \in 1..Len(a) :
        /\ \A h \in 1..(k - 1) : a[h] = b[h]
        /\ Ord(a[k]) < Ord(b[k])

\* C16 (as claimed): every returned detail list is ordered by length and, among tokens
\* of equal length, lexicographically, so that the list is determined by the set
C16_LengthThenLexicographic ==
    Returned =>
        \A key \in DOMAIN report :
            \A i, j \in 1..Len(report[key]) :
                i < j => \/ Len(report[key][i]) < Len(report[key][j])
                         \/ /\ Len(report[key][i]) = Len(report[key][j])
                            /\ LexLess(report[key][i], report[key][j])

----------------------------------------------------------------------------
(* The alert channel, fetch failures and the scheduled jobs *)

ListPosts(posts) == {k \in 1..Len(posts) : posts[k].text = ListText}

\* C17 (as claimed): an evaluation that finds the flag set and the count above 20 posts
\* nothing to the alert channel, and the "Restart list" is posted only by an evaluation
\* that sent the alert
C17_ListOnlyWithAlert ==
    Handled =>
        /\ (last.before /\ last.count > FireAbove) =>
              \A k \in 1..Len(last.posts) : last.posts[k].channel # ALERT_CHANNEL_ID
        /\ ListPosts(last.posts) # {} => AlertPosts(last.posts) # {}

FetchFailed(rec) == \E k \in 1..Len(rec.fetches) : ~rec.fetches[k].ok

\* C18 (as claimed): an evaluation whose fetch fails while the flag is set and the day's
\* real score is above 20 leaves the flag set
C18_FetchFailureKeepsFlag ==
    (/\ Handled
     /\ last.before
     /\ FetchFailed(last)
     /\ Memo(ScoreMemo, window) > FireAbove) => alert_sent

\* C19 (as claimed): the total of a daily summary is the score of the table posted in
\* the same summary
C19_TotalMatchesTable ==
    (last.op = "daily_check" /\ Len(last.posts) = 2) =>
        last.posts[1].count = restart_num(last.posts[2].blocks)

Scheduled == last.op \in {"daily_check", "send_ping"}

\* C20: daily_check and send_ping leave alert_sent as it was and post nothing to the
\* alert channel, whatever the count; the flag changes only in the real-time handler
C20_JobsLeaveAlertState ==
    /\ Scheduled =>
          /\ alert_sent = last.before
          /\ AlertPosts(last.posts) = {}
          /\ \A k \in 1..Len(last.posts) : last.posts[k].channel # ALERT_CHANNEL_ID
    /\ alert_sent # last.before => Handled

C20_Witness ==
    /\ last.op = "daily_check"
    /\ last.count > FireAbove
    /\ ~last.before
    /\ ~alert_sent
    /\ Len(last.posts) = 2
    /\ \A k \in 1..2 : last.posts[k].ok
====
